---------------------------- MODULE Spec2Model ----------------------------
(***************************************************************************)
(* A model of astroid/node_classes.py: the branch-exclusivity analysis     *)
(* are_exclusive, the lookup filter LookupMixIn._filter_stmts, the         *)
(* inferred-value unpacker unpack_infer and Arguments.default_value.       *)
(*                                                                         *)
(* The syntax trees are a fixed forest of five modules (Tree below); a     *)
(* node is its index in Tree and None is the missing node.  The parent     *)
(* links and the scopes' locals lists are state, so that the operations'   *)
(* effect on them can be stated.                                           *)
(***************************************************************************)
EXTENDS Integers, Sequences, FiniteSets, TLC

None == 0

(***************************************************************************)
(* The forest.  Each record is one node: its class, its parent, the field  *)
(* of the parent that holds it, whether that field is a sequence of nodes  *)
(* (body, orelse, handlers, ...) or a single node (test, value, type,      *)
(* ...), its line, its name, and a tag used to speak about it.             *)
(*                                                                         *)
(*  m1 (tests/unittest_utils.py, test_not_exclusive)                       *)
(*     2  x = 10                                                           *)
(*     3  for x in range(5):                                               *)
(*     4      print(x)                                                     *)
(*     6  if x > 0:                                                        *)
(*     7      print('#' * x)                                               *)
(*  m2 (test_if)                                                           *)
(*     2  if c:                                                            *)
(*     3      a = 1                                                        *)
(*     4      a = 2                                                        *)
(*     5  elif 2:                                                          *)
(*     6      a = 12                                                       *)
(*     7      a = 13                                                       *)
(*     8  else:                                                            *)
(*     9      a = 3                                                        *)
(*    10      a = 4                                                        *)
(*  m3 (test_try_except, with a named, tuple-typed handler added)          *)
(*     2  try:                                                             *)
(*     3      def f(): "docstring"                                         *)
(*     5      y = 1                                                        *)
(*     6  except TypeError:                                                *)
(*     7      def f(): "docstring"                                         *)
(*     9  except (KeyError, os.error) as e:                                *)
(*    10      y = 2                                                        *)
(*    11      y                                                            *)
(*    12  except:                                                          *)
(*    13      def f(): "docstring"                                         *)
(*    15  else:                                                            *)
(*    16      def f(): "docstring"                                         *)
(*    18      y = 3                                                        *)
(*  m4                                                                     *)
(*     1  x = 0                                                            *)
(*     2  def g(p=x):                                                      *)
(*     3      x = 1                                                        *)
(*     4      with open() as x:                                            *)
(*     5          x                                                        *)
(*     6      return x                                                     *)
(*     7  class C(x):                                                      *)
(*     8      x = 2                                                        *)
(*     9      x                                                            *)
(*    10  while x:                                                         *)
(*    11      x = 3                                                        *)
(*    12  else:                                                            *)
(*    13      x                                                            *)
(*    14  try:                                                             *)
(*    15      x = 4                                                        *)
(*    16  finally:                                                         *)
(*    17      del x                                                        *)
(*    18  y = [x for x in y]                                               *)
(*    19  x                                                                *)
(*    20  for x in [x for x in y]:                                         *)
(*    21      x                                                            *)
(*    22  x                                                                *)
(*  m5                                                                     *)
(*     1  class K(x):                                                      *)
(*     2      pass                                                         *)
(*     3  x = 0                                                            *)
(*     4  if c:                                                            *)
(*     5      x = 1                                                        *)
(*     6  else:                                                            *)
(*     7      x                                                            *)
(*     8  if c:                                                            *)
(*     9      x = 2                                                        *)
(*    10  else:                                                            *)
(*    11      x = 3                                                        *)
(*    12      x = 4                                                        *)
(*    13  x                                                                *)
(*    14  x = 5                                                            *)
(*    15  x                                                                *)
(*    16  while c:                                                         *)
(*    17      w = 1                                                        *)
(*    18  with open() as w:                                                *)
(*    19      w                                                            *)
(*    20  def h():                                                         *)
(*    21      class J(w):                                                  *)
(*    22          pass                                                     *)
(*  The target of a list comprehension is bound in the enclosing scope, as *)
(*  it is where a list comprehension is not a scope of its own.            *)
(***************************************************************************)
Tree ==
  << [kind |-> "Module", parent |-> 0, field |-> "", seq |-> FALSE, line |-> 0, name |-> "m1", tag |-> "m1"],
     [kind |-> "Assign", parent |-> 1, field |-> "body", seq |-> TRUE, line |-> 2, name |-> "", tag |-> ""],
     [kind |-> "AssignName", parent |-> 2, field |-> "targets", seq |-> TRUE, line |-> 2, name |-> "x", tag |-> "m1.x10"],
     [kind |-> "For", parent |-> 1, field |-> "body", seq |-> TRUE, line |-> 3, name |-> "", tag |-> ""],
     [kind |-> "AssignName", parent |-> 4, field |-> "target", seq |-> FALSE, line |-> 3, name |-> "x", tag |-> "m1.xfor"],
     [kind |-> "Call", parent |-> 4, field |-> "iter", seq |-> FALSE, line |-> 3, name |-> "", tag |-> ""],
     [kind |-> "Expr", parent |-> 4, field |-> "body", seq |-> TRUE, line |-> 4, name |-> "", tag |-> ""],
     [kind |-> "Call", parent |-> 7, field |-> "value", seq |-> FALSE, line |-> 4, name |-> "", tag |-> ""],
     [kind |-> "Name", parent |-> 8, field |-> "args", seq |-> TRUE, line |-> 4, name |-> "x", tag |-> "m1.print"],
     [kind |-> "If", parent |-> 1, field |-> "body", seq |-> TRUE, line |-> 6, name |-> "", tag |-> "m1.if"],
     [kind |-> "Compare", parent |-> 10, field |-> "test", seq |-> FALSE, line |-> 6, name |-> "", tag |-> ""],
     [kind |-> "Name", parent |-> 11, field |-> "left", seq |-> FALSE, line |-> 6, name |-> "x", tag |-> "m1.test"],
     [kind |-> "Const", parent |-> 11, field |-> "ops", seq |-> TRUE, line |-> 6, name |-> "", tag |-> ""],
     [kind |-> "Expr", parent |-> 10, field |-> "body", seq |-> TRUE, line |-> 7, name |-> "", tag |-> ""],
     [kind |-> "Call", parent |-> 14, field |-> "value", seq |-> FALSE, line |-> 7, name |-> "", tag |-> ""],
     [kind |-> "BinOp", parent |-> 15, field |-> "args", seq |-> TRUE, line |-> 7, name |-> "", tag |-> ""],
     [kind |-> "Const", parent |-> 16, field |-> "left", seq |-> FALSE, line |-> 7, name |-> "", tag |-> ""],
     [kind |-> "Name", parent |-> 16, field |-> "right", seq |-> FALSE, line |-> 7, name |-> "x", tag |-> "m1.body"],
     [kind |-> "Module", parent |-> 0, field |-> "", seq |-> FALSE, line |-> 0, name |-> "m2", tag |-> "m2"],
     [kind |-> "If", parent |-> 19, field |-> "body", seq |-> TRUE, line |-> 2, name |-> "", tag |-> "m2.if"],
     [kind |-> "Name", parent |-> 20, field |-> "test", seq |-> FALSE, line |-> 2, name |-> "c", tag |-> "m2.test1"],
     [kind |-> "Assign", parent |-> 20, field |-> "body", seq |-> TRUE, line |-> 3, name |-> "", tag |-> ""],
     [kind |-> "AssignName", parent |-> 22, field |-> "targets", seq |-> TRUE, line |-> 3, name |-> "a", tag |-> "m2.a1"],
     [kind |-> "Assign", parent |-> 20, field |-> "body", seq |-> TRUE, line |-> 4, name |-> "", tag |-> ""],
     [kind |-> "AssignName", parent |-> 24, field |-> "targets", seq |-> TRUE, line |-> 4, name |-> "a", tag |-> "m2.a2"],
     [kind |-> "If", parent |-> 20, field |-> "orelse", seq |-> TRUE, line |-> 5, name |-> "", tag |-> "m2.elif"],
     [kind |-> "Const", parent |-> 26, field |-> "test", seq |-> FALSE, line |-> 5, name |-> "", tag |-> "m2.test2"],
     [kind |-> "Assign", parent |-> 26, field |-> "body", seq |-> TRUE, line |-> 6, name |-> "", tag |-> ""],
     [kind |-> "AssignName", parent |-> 28, field |-> "targets", seq |-> TRUE, line |-> 6, name |-> "a", tag |-> "m2.a3"],
     [kind |-> "Assign", parent |-> 26, field |-> "body", seq |-> TRUE, line |-> 7, name |-> "", tag |-> ""],
     [kind |-> "AssignName", parent |-> 30, field |-> "targets", seq |-> TRUE, line |-> 7, name |-> "a", tag |-> "m2.a4"],
     [kind |-> "Assign", parent |-> 26, field |-> "orelse", seq |-> TRUE, line |-> 9, name |-> "", tag |-> ""],
     [kind |-> "AssignName", parent |-> 32, field |-> "targets", seq |-> TRUE, line |-> 9, name |-> "a", tag |-> "m2.a5"],
     [kind |-> "Assign", parent |-> 26, field |-> "orelse", seq |-> TRUE, line |-> 10, name |-> "", tag |-> ""],
     [kind |-> "AssignName", parent |-> 34, field |-> "targets", seq |-> TRUE, line |-> 10, name |-> "a", tag |-> "m2.a6"],
     [kind |-> "Module", parent |-> 0, field |-> "", seq |-> FALSE, line |-> 0, name |-> "m3", tag |-> "m3"],
     [kind |-> "TryExcept", parent |-> 36, field |-> "body", seq |-> TRUE, line |-> 2, name |-> "", tag |-> "m3.try"],
     [kind |-> "FunctionDef", parent |-> 37, field |-> "body", seq |-> TRUE, line |-> 3, name |-> "f", tag |-> "m3.f1"],
     [kind |-> "Arguments", parent |-> 38, field |-> "args", seq |-> FALSE, line |-> 3, name |-> "", tag |-> ""],
     [kind |-> "Assign", parent |-> 37, field |-> "body", seq |-> TRUE, line |-> 5, name |-> "", tag |-> ""],
     [kind |-> "AssignName", parent |-> 40, field |-> "targets", seq |-> TRUE, line |-> 5, name |-> "y", tag |-> "m3.ybody"],
     [kind |-> "ExceptHandler", parent |-> 37, field |-> "handlers", seq |-> TRUE, line |-> 6, name |-> "", tag |-> "m3.h1"],
     [kind |-> "Name", parent |-> 42, field |-> "type", seq |-> FALSE, line |-> 6, name |-> "TypeError", tag |-> "m3.h1type"],
     [kind |-> "FunctionDef", parent |-> 42, field |-> "body", seq |-> TRUE, line |-> 7, name |-> "f", tag |-> "m3.f2"],
     [kind |-> "Arguments", parent |-> 44, field |-> "args", seq |-> FALSE, line |-> 7, name |-> "", tag |-> ""],
     [kind |-> "ExceptHandler", parent |-> 37, field |-> "handlers", seq |-> TRUE, line |-> 9, name |-> "", tag |-> "m3.h2"],
     [kind |-> "Tuple", parent |-> 46, field |-> "type", seq |-> FALSE, line |-> 9, name |-> "", tag |-> ""],
     [kind |-> "Name", parent |-> 47, field |-> "elts", seq |-> TRUE, line |-> 9, name |-> "KeyError", tag |-> ""],
     [kind |-> "Attribute", parent |-> 47, field |-> "elts", seq |-> TRUE, line |-> 9, name |-> "", tag |-> ""],
     [kind |-> "Name", parent |-> 49, field |-> "expr", seq |-> FALSE, line |-> 9, name |-> "os", tag |-> ""],
     [kind |-> "AssignName", parent |-> 46, field |-> "name", seq |-> FALSE, line |-> 9, name |-> "e", tag |-> "m3.e"],
     [kind |-> "Assign", parent |-> 46, field |-> "body", seq |-> TRUE, line |-> 10, name |-> "", tag |-> ""],
     [kind |-> "AssignName", parent |-> 52, field |-> "targets", seq |-> TRUE, line |-> 10, name |-> "y", tag |-> "m3.yh2"],
     [kind |-> "Expr", parent |-> 46, field |-> "body", seq |-> TRUE, line |-> 11, name |-> "", tag |-> ""],
     [kind |-> "Name", parent |-> 54, field |-> "value", seq |-> FALSE, line |-> 11, name |-> "y", tag |-> "m3.useh2"],
     [kind |-> "ExceptHandler", parent |-> 37, field |-> "handlers", seq |-> TRUE, line |-> 12, name |-> "", tag |-> "m3.h3"],
     [kind |-> "FunctionDef", parent |-> 56, field |-> "body", seq |-> TRUE, line |-> 13, name |-> "f", tag |-> "m3.f3"],
     [kind |-> "Arguments", parent |-> 57, field |-> "args", seq |-> FALSE, line |-> 13, name |-> "", tag |-> ""],
     [kind |-> "FunctionDef", parent |-> 37, field |-> "orelse", seq |-> TRUE, line |-> 16, name |-> "f", tag |-> "m3.f4"],
     [kind |-> "Arguments", parent |-> 59, field |-> "args", seq |-> FALSE, line |-> 16, name |-> "", tag |-> ""],
     [kind |-> "Assign", parent |-> 37, field |-> "orelse", seq |-> TRUE, line |-> 18, name |-> "", tag |-> ""],
     [kind |-> "AssignName", parent |-> 61, field |-> "targets", seq |-> TRUE, line |-> 18, name |-> "y", tag |-> "m3.yelse"],
     [kind |-> "Module", parent |-> 0, field |-> "", seq |-> FALSE, line |-> 0, name |-> "m4", tag |-> "m4"],
     [kind |-> "Assign", parent |-> 63, field |-> "body", seq |-> TRUE, line |-> 1, name |-> "", tag |-> ""],
     [kind |-> "AssignName", parent |-> 64, field |-> "targets", seq |-> TRUE, line |-> 1, name |-> "x", tag |-> "m4.x0"],
     [kind |-> "FunctionDef", parent |-> 63, field |-> "body", seq |-> TRUE, line |-> 2, name |-> "g", tag |-> "m4.g"],
     [kind |-> "Arguments", parent |-> 66, field |-> "args", seq |-> FALSE, line |-> 2, name |-> "", tag |-> ""],
     [kind |-> "AssignName", parent |-> 67, field |-> "args", seq |-> TRUE, line |-> 2, name |-> "p", tag |-> "m4.p"],
     [kind |-> "Name", parent |-> 67, field |-> "defaults", seq |-> TRUE, line |-> 2, name |-> "x", tag |-> "m4.default"],
     [kind |-> "Assign", parent |-> 66, field |-> "body", seq |-> TRUE, line |-> 3, name |-> "", tag |-> ""],
     [kind |-> "AssignName", parent |-> 70, field |-> "targets", seq |-> TRUE, line |-> 3, name |-> "x", tag |-> "m4.gx1"],
     [kind |-> "With", parent |-> 66, field |-> "body", seq |-> TRUE, line |-> 4, name |-> "", tag |-> "m4.with"],
     [kind |-> "Call", parent |-> 72, field |-> "items", seq |-> TRUE, line |-> 4, name |-> "", tag |-> ""],
     [kind |-> "AssignName", parent |-> 72, field |-> "items", seq |-> TRUE, line |-> 4, name |-> "x", tag |-> "m4.withx"],
     [kind |-> "Expr", parent |-> 72, field |-> "body", seq |-> TRUE, line |-> 5, name |-> "", tag |-> ""],
     [kind |-> "Name", parent |-> 75, field |-> "value", seq |-> FALSE, line |-> 5, name |-> "x", tag |-> "m4.inwith"],
     [kind |-> "Return", parent |-> 66, field |-> "body", seq |-> TRUE, line |-> 6, name |-> "", tag |-> ""],
     [kind |-> "Name", parent |-> 77, field |-> "value", seq |-> FALSE, line |-> 6, name |-> "x", tag |-> "m4.ret"],
     [kind |-> "ClassDef", parent |-> 63, field |-> "body", seq |-> TRUE, line |-> 7, name |-> "C", tag |-> "m4.C"],
     [kind |-> "Name", parent |-> 79, field |-> "bases", seq |-> TRUE, line |-> 7, name |-> "x", tag |-> "m4.base"],
     [kind |-> "Assign", parent |-> 79, field |-> "body", seq |-> TRUE, line |-> 8, name |-> "", tag |-> ""],
     [kind |-> "AssignName", parent |-> 81, field |-> "targets", seq |-> TRUE, line |-> 8, name |-> "x", tag |-> "m4.Cx"],
     [kind |-> "Expr", parent |-> 79, field |-> "body", seq |-> TRUE, line |-> 9, name |-> "", tag |-> ""],
     [kind |-> "Name", parent |-> 83, field |-> "value", seq |-> FALSE, line |-> 9, name |-> "x", tag |-> "m4.inclass"],
     [kind |-> "While", parent |-> 63, field |-> "body", seq |-> TRUE, line |-> 10, name |-> "", tag |-> "m4.while"],
     [kind |-> "Name", parent |-> 85, field |-> "test", seq |-> FALSE, line |-> 10, name |-> "x", tag |-> "m4.wtest"],
     [kind |-> "Assign", parent |-> 85, field |-> "body", seq |-> TRUE, line |-> 11, name |-> "", tag |-> ""],
     [kind |-> "AssignName", parent |-> 87, field |-> "targets", seq |-> TRUE, line |-> 11, name |-> "x", tag |-> "m4.wx"],
     [kind |-> "Expr", parent |-> 85, field |-> "orelse", seq |-> TRUE, line |-> 13, name |-> "", tag |-> ""],
     [kind |-> "Name", parent |-> 89, field |-> "value", seq |-> FALSE, line |-> 13, name |-> "x", tag |-> "m4.welse"],
     [kind |-> "TryFinally", parent |-> 63, field |-> "body", seq |-> TRUE, line |-> 14, name |-> "", tag |-> "m4.tf"],
     [kind |-> "Assign", parent |-> 91, field |-> "body", seq |-> TRUE, line |-> 15, name |-> "", tag |-> ""],
     [kind |-> "AssignName", parent |-> 92, field |-> "targets", seq |-> TRUE, line |-> 15, name |-> "x", tag |-> "m4.tfx"],
     [kind |-> "Delete", parent |-> 91, field |-> "finalbody", seq |-> TRUE, line |-> 17, name |-> "", tag |-> ""],
     [kind |-> "DelName", parent |-> 94, field |-> "targets", seq |-> TRUE, line |-> 17, name |-> "x", tag |-> "m4.del"],
     [kind |-> "Assign", parent |-> 63, field |-> "body", seq |-> TRUE, line |-> 18, name |-> "", tag |-> ""],
     [kind |-> "AssignName", parent |-> 96, field |-> "targets", seq |-> TRUE, line |-> 18, name |-> "y", tag |-> "m4.y"],
     [kind |-> "ListComp", parent |-> 96, field |-> "value", seq |-> FALSE, line |-> 18, name |-> "", tag |-> ""],
     [kind |-> "Name", parent |-> 98, field |-> "elt", seq |-> FALSE, line |-> 18, name |-> "x", tag |-> "m4.elt"],
     [kind |-> "Comprehension", parent |-> 98, field |-> "generators", seq |-> TRUE, line |-> 18, name |-> "", tag |-> "m4.comp"],
     [kind |-> "AssignName", parent |-> 100, field |-> "target", seq |-> FALSE, line |-> 18, name |-> "x", tag |-> "m4.compx"],
     [kind |-> "Name", parent |-> 100, field |-> "iter", seq |-> FALSE, line |-> 18, name |-> "y", tag |-> "m4.iter"],
     [kind |-> "Expr", parent |-> 63, field |-> "body", seq |-> TRUE, line |-> 19, name |-> "", tag |-> ""],
     [kind |-> "Name", parent |-> 103, field |-> "value", seq |-> FALSE, line |-> 19, name |-> "x", tag |-> "m4.last"],
     [kind |-> "For", parent |-> 63, field |-> "body", seq |-> TRUE, line |-> 20, name |-> "", tag |-> "m4.for"],
     [kind |-> "AssignName", parent |-> 105, field |-> "target", seq |-> FALSE, line |-> 20, name |-> "x", tag |-> "m4.forx"],
     [kind |-> "ListComp", parent |-> 105, field |-> "iter", seq |-> FALSE, line |-> 20, name |-> "", tag |-> ""],
     [kind |-> "Name", parent |-> 107, field |-> "elt", seq |-> FALSE, line |-> 20, name |-> "x", tag |-> "m4.elt2"],
     [kind |-> "Comprehension", parent |-> 107, field |-> "generators", seq |-> TRUE, line |-> 20, name |-> "", tag |-> "m4.comp2"],
     [kind |-> "AssignName", parent |-> 109, field |-> "target", seq |-> FALSE, line |-> 20, name |-> "x", tag |-> "m4.compx2"],
     [kind |-> "Name", parent |-> 109, field |-> "iter", seq |-> FALSE, line |-> 20, name |-> "y", tag |-> "m4.iter2"],
     [kind |-> "Expr", parent |-> 105, field |-> "body", seq |-> TRUE, line |-> 21, name |-> "", tag |-> ""],
     [kind |-> "Name", parent |-> 112, field |-> "value", seq |-> FALSE, line |-> 21, name |-> "x", tag |-> "m4.infor"],
     [kind |-> "Expr", parent |-> 63, field |-> "body", seq |-> TRUE, line |-> 22, name |-> "", tag |-> ""],
     [kind |-> "Name", parent |-> 114, field |-> "value", seq |-> FALSE, line |-> 22, name |-> "x", tag |-> "m4.end"],
     [kind |-> "Module", parent |-> 0, field |-> "", seq |-> FALSE, line |-> 0, name |-> "m5", tag |-> "m5"],
     [kind |-> "ClassDef", parent |-> 116, field |-> "body", seq |-> TRUE, line |-> 1, name |-> "K", tag |-> "m5.K"],
     [kind |-> "Name", parent |-> 117, field |-> "bases", seq |-> TRUE, line |-> 1, name |-> "x", tag |-> "m5.base"],
     [kind |-> "Pass", parent |-> 117, field |-> "body", seq |-> TRUE, line |-> 2, name |-> "", tag |-> ""],
     [kind |-> "Assign", parent |-> 116, field |-> "body", seq |-> TRUE, line |-> 3, name |-> "", tag |-> ""],
     [kind |-> "AssignName", parent |-> 120, field |-> "targets", seq |-> TRUE, line |-> 3, name |-> "x", tag |-> "m5.x0"],
     [kind |-> "If", parent |-> 116, field |-> "body", seq |-> TRUE, line |-> 4, name |-> "", tag |-> "m5.if1"],
     [kind |-> "Name", parent |-> 122, field |-> "test", seq |-> FALSE, line |-> 4, name |-> "c", tag |-> ""],
     [kind |-> "Assign", parent |-> 122, field |-> "body", seq |-> TRUE, line |-> 5, name |-> "", tag |-> ""],
     [kind |-> "AssignName", parent |-> 124, field |-> "targets", seq |-> TRUE, line |-> 5, name |-> "x", tag |-> "m5.x1"],
     [kind |-> "Expr", parent |-> 122, field |-> "orelse", seq |-> TRUE, line |-> 7, name |-> "", tag |-> ""],
     [kind |-> "Name", parent |-> 126, field |-> "value", seq |-> FALSE, line |-> 7, name |-> "x", tag |-> "m5.inelse"],
     [kind |-> "If", parent |-> 116, field |-> "body", seq |-> TRUE, line |-> 8, name |-> "", tag |-> "m5.if2"],
     [kind |-> "Name", parent |-> 128, field |-> "test", seq |-> FALSE, line |-> 8, name |-> "c", tag |-> ""],
     [kind |-> "Assign", parent |-> 128, field |-> "body", seq |-> TRUE, line |-> 9, name |-> "", tag |-> ""],
     [kind |-> "AssignName", parent |-> 130, field |-> "targets", seq |-> TRUE, line |-> 9, name |-> "x", tag |-> "m5.x2"],
     [kind |-> "Assign", parent |-> 128, field |-> "orelse", seq |-> TRUE, line |-> 11, name |-> "", tag |-> ""],
     [kind |-> "AssignName", parent |-> 132, field |-> "targets", seq |-> TRUE, line |-> 11, name |-> "x", tag |-> "m5.x3"],
     [kind |-> "Assign", parent |-> 128, field |-> "orelse", seq |-> TRUE, line |-> 12, name |-> "", tag |-> ""],
     [kind |-> "AssignName", parent |-> 134, field |-> "targets", seq |-> TRUE, line |-> 12, name |-> "x", tag |-> "m5.x4"],
     [kind |-> "Expr", parent |-> 116, field |-> "body", seq |-> TRUE, line |-> 13, name |-> "", tag |-> ""],
     [kind |-> "Name", parent |-> 136, field |-> "value", seq |-> FALSE, line |-> 13, name |-> "x", tag |-> "m5.mid"],
     [kind |-> "Assign", parent |-> 116, field |-> "body", seq |-> TRUE, line |-> 14, name |-> "", tag |-> ""],
     [kind |-> "AssignName", parent |-> 138, field |-> "targets", seq |-> TRUE, line |-> 14, name |-> "x", tag |-> "m5.x5"],
     [kind |-> "Expr", parent |-> 116, field |-> "body", seq |-> TRUE, line |-> 15, name |-> "", tag |-> ""],
     [kind |-> "Name", parent |-> 140, field |-> "value", seq |-> FALSE, line |-> 15, name |-> "x", tag |-> "m5.last"],
     [kind |-> "While", parent |-> 116, field |-> "body", seq |-> TRUE, line |-> 16, name |-> "", tag |-> "m5.while"],
     [kind |-> "Name", parent |-> 142, field |-> "test", seq |-> FALSE, line |-> 16, name |-> "c", tag |-> ""],
     [kind |-> "Assign", parent |-> 142, field |-> "body", seq |-> TRUE, line |-> 17, name |-> "", tag |-> ""],
     [kind |-> "AssignName", parent |-> 144, field |-> "targets", seq |-> TRUE, line |-> 17, name |-> "w", tag |-> "m5.w1"],
     [kind |-> "With", parent |-> 116, field |-> "body", seq |-> TRUE, line |-> 18, name |-> "", tag |-> "m5.with"],
     [kind |-> "Call", parent |-> 146, field |-> "items", seq |-> TRUE, line |-> 18, name |-> "", tag |-> ""],
     [kind |-> "AssignName", parent |-> 146, field |-> "items", seq |-> TRUE, line |-> 18, name |-> "w", tag |-> "m5.withw"],
     [kind |-> "Expr", parent |-> 146, field |-> "body", seq |-> TRUE, line |-> 19, name |-> "", tag |-> ""],
     [kind |-> "Name", parent |-> 149, field |-> "value", seq |-> FALSE, line |-> 19, name |-> "w", tag |-> "m5.inwith"],
     [kind |-> "FunctionDef", parent |-> 116, field |-> "body", seq |-> TRUE, line |-> 20, name |-> "h", tag |-> "m5.h"],
     [kind |-> "Arguments", parent |-> 151, field |-> "args", seq |-> FALSE, line |-> 20, name |-> "", tag |-> ""],
     [kind |-> "ClassDef", parent |-> 151, field |-> "body", seq |-> TRUE, line |-> 21, name |-> "J", tag |-> "m5.J"],
     [kind |-> "Name", parent |-> 153, field |-> "bases", seq |-> TRUE, line |-> 21, name |-> "w", tag |-> "m5.jbase"],
     [kind |-> "Pass", parent |-> 153, field |-> "body", seq |-> TRUE, line |-> 22, name |-> "", tag |-> ""] >>

LocalsTable ==
  << [scope |-> 1, name |-> "x", nodes |-> << 3, 5 >>],
     [scope |-> 19, name |-> "a", nodes |-> << 23, 25, 29, 31, 33, 35 >>],
     [scope |-> 36, name |-> "e", nodes |-> << 51 >>],
     [scope |-> 36, name |-> "f", nodes |-> << 38, 44, 57, 59 >>],
     [scope |-> 36, name |-> "y", nodes |-> << 41, 53, 62 >>],
     [scope |-> 63, name |-> "C", nodes |-> << 79 >>],
     [scope |-> 63, name |-> "g", nodes |-> << 66 >>],
     [scope |-> 63, name |-> "x", nodes |-> << 65, 88, 93, 95, 101, 106, 110 >>],
     [scope |-> 63, name |-> "y", nodes |-> << 97 >>],
     [scope |-> 66, name |-> "p", nodes |-> << 68 >>],
     [scope |-> 66, name |-> "x", nodes |-> << 71, 74 >>],
     [scope |-> 79, name |-> "x", nodes |-> << 82 >>],
     [scope |-> 116, name |-> "K", nodes |-> << 117 >>],
     [scope |-> 116, name |-> "h", nodes |-> << 151 >>],
     [scope |-> 116, name |-> "w", nodes |-> << 145, 148 >>],
     [scope |-> 116, name |-> "x", nodes |-> << 121, 125, 131, 133, 135, 139 >>],
     [scope |-> 151, name |-> "J", nodes |-> << 153 >>] >>

Nodes == 1..Len(Tree)

\* The node carrying a tag.
N(tag) == CHOOSE n \in Nodes : Tree[n].tag = tag

\* exceptions=None, or a collection of exception names.
MaxExcNames == 1
ExcNames == {"TypeError", "KeyError", "os"}
NoExceptions == [given |-> FALSE, names |-> {}]
ExceptionArgs ==
  {NoExceptions} \cup
  {[given |-> TRUE, names |-> s] : s \in {t \in SUBSET ExcNames : Cardinality(t) <= MaxExcNames}}

\* The list objects: one per locals[name] list of a scope, and the list that
\* _filter_stmts binds to _stmts.
LocalsLists == 1..Len(LocalsTable)
STMTS == Len(LocalsTable) + 1

VARIABLES
  parent,      \* node -> its parent (None for a module)
  lists,       \* list object -> its contents
  pc,          \* "idle", "scan" (in the loop of _filter_stmts), "done"
  op,          \* the operation called
  stmt1, stmt2, exceptions,   \* the arguments of are_exclusive
  excl,        \* its result
  lookup_self, frame, offset, stmts, \* self and the arguments of _filter_stmts; stmts is a list object
  mystmt, mylineno,           \* its locals
  idx,                        \* the position of the for loop in stmts
  _stmt_parents,
  path,                       \* the branches the last pass of the loop took
  trace,                      \* the passes of the loop made before the last, in order
  result,                     \* the list object it returned, None before
  prev,                       \* the results of the same call made before
  upc,         \* unpack_infer: "idle", "run", "done"
  u_stmt,      \* its argument
  yes_infer,   \* what calling infer on util.YES does in this run
  stack,       \* the chain of unpack_infer generators, the innermost last
  u_out,       \* the values yielded to the caller so far
  u_status,    \* "running", "returned", "raised", "recursion"
  apc,         \* Arguments.default_value: "idle", "done"
  arguments,   \* the Arguments node: args, defaults, kwonlyargs, kw_defaults
  argname,     \* the argument of default_value
  a_result     \* what it returned or raised

treeVars == <<parent>>
exclVars == <<stmt1, stmt2, exceptions, excl>>
filterVars == <<lookup_self, frame, offset, stmts, mystmt, mylineno, idx, _stmt_parents, path, trace, result>>
unpackVars == <<upc, u_stmt, yes_infer, stack, u_out, u_status>>
argVars == <<apc, arguments, argname, a_result>>
vars == <<parent, lists, pc, op, exclVars, filterVars, prev, unpackVars, argVars>>

-----------------------------------------------------------------------------
(* Tree navigation (astroid.bases.NodeNG). *)

kind(n) == Tree[n].kind

\* The children of a node, by the parent links.
Children(n) == {c \in Nodes : parent[c] = n}

\* The single node held by a field, or None.
FieldNode(n, f) ==
  IF \E c \in Children(n) : Tree[c].field = f
  THEN CHOOSE c \in Children(n) : Tree[c].field = f
  ELSE None

\* node, node.parent, ... up to the root.
RECURSIVE PathUp(_)
PathUp(n) == IF n = None THEN <<>> ELSE <<n>> \o PathUp(parent[n])

\* NodeNG.parent_of: self is a proper ancestor of node.
parent_of(self, node) == LET p == PathUp(node) IN \E i \in 2..Len(p) : p[i] = self

\* NodeNG.nodes_of_class: the nodes of a class in the subtree of self.
nodes_of_class(self, klass) ==
  {d \in Nodes : kind(d) = klass /\ (d = self \/ parent_of(self, d))}

\* NodeNG.locate_child: the field holding the child, and the field's value:
\* the sequence for a sequence field, the child for a single-node field.
locate_child(self, child) ==
  [attr |-> Tree[child].field,
   node |-> IF Tree[child].seq THEN <<self, Tree[child].field>> ELSE <<child, "">>]

-----------------------------------------------------------------------------
(* are_exclusive *)

\* A handler that compares the names against the handler type only when the
\* type is itself a Name.
catch_TopLevelNameOnly(self, exc) ==
  IF FieldNode(self, "type") = None \/ ~exc.given THEN TRUE
  ELSE /\ kind(FieldNode(self, "type")) = "Name"
       /\ Tree[FieldNode(self, "type")].name \in exc.names

\* ExceptHandler.catch; falling off the end returns None, which is false.
catch(self, exc) ==
  IF FieldNode(self, "type") = None \/ ~exc.given THEN TRUE
  ELSE \E node \in nodes_of_class(FieldNode(self, "type"), "Name") :
         Tree[node].name \in exc.names

\* The loop "index stmt1's parents": the keys of stmt1_parents.
stmt1_parents(s1) == LET p == PathUp(s1) IN {p[i] : i \in 2..Len(p)}

\* children[node]: the node below it on the path from stmt1.
children(s1, node) == LET p == PathUp(s1) IN CHOOSE c \in {p[i] : i \in 1..Len(p)} : parent[c] = node

\* The TryExcept case without the test of the handler being on stmt2's side.
TryExceptBranches_OneSided(node, previous, child1, exc) ==
  LET c2 == locate_child(node, previous)
      c1 == locate_child(node, child1)
  IN  IF c1.node # c2.node
      THEN \/ (c2.attr = "body" /\ c1.attr = "handlers" /\ catch(child1, exc))
           \/ (c2.attr = "handlers" /\ c1.attr = "orelse")
           \/ (c2.attr = "orelse" /\ c1.attr = "handlers")
      ELSE IF c2.attr = "handlers" /\ c1.attr = "handlers"
           THEN previous # child1
           ELSE FALSE

\* The TryExcept case with the handlers-versus-orelse tests left out.
TryExceptBranches_NoOrelse(node, previous, child1, exc) ==
  LET c2 == locate_child(node, previous)
      c1 == locate_child(node, child1)
  IN  IF c1.node # c2.node
      THEN \/ (c2.attr = "body" /\ c1.attr = "handlers" /\ catch(child1, exc))
           \/ (c2.attr = "handlers" /\ c1.attr = "body" /\ catch(previous, exc))
      ELSE IF c2.attr = "handlers" /\ c1.attr = "handlers"
           THEN previous # child1
           ELSE FALSE

\* The common parent is a TryExcept.
TryExceptBranches(node, previous, child1, exc) ==
  LET c2 == locate_child(node, previous)
      c1 == locate_child(node, child1)
  IN  IF c1.node # c2.node
      THEN \/ (c2.attr = "body" /\ c1.attr = "handlers" /\ catch(child1, exc))
           \/ (c2.attr = "handlers" /\ c1.attr = "body" /\ catch(previous, exc))
           \/ (c2.attr = "handlers" /\ c1.attr = "orelse")
           \/ (c2.attr = "orelse" /\ c1.attr = "handlers")
      ELSE IF c2.attr = "handlers" /\ c1.attr = "handlers"
           THEN previous # child1
           ELSE FALSE

\* The common parent is an If and no exceptions are given.
IfBranches(node, previous, child1) ==
  locate_child(node, previous).node # locate_child(node, child1).node

\* A common parent that also takes the two blocks of a loop for exclusive.
CommonParent_LoopElse(node, previous, child1, exc) ==
  IF kind(node) \in {"If", "While", "For"} /\ ~exc.given THEN IfBranches(node, previous, child1)
  ELSE IF kind(node) = "TryExcept" THEN TryExceptBranches(node, previous, child1, exc)
  ELSE FALSE

\* The body of "if node in stmt1_parents": the answer at the common parent.
CommonParent(node, previous, child1, exc) ==
  IF kind(node) = "If" /\ ~exc.given THEN IfBranches(node, previous, child1)
  ELSE IF kind(node) = "TryExcept" THEN TryExceptBranches(node, previous, child1, exc)
  ELSE FALSE

\* The loop "climb among stmt2's parents until we find a common parent".
RECURSIVE Climb(_, _, _, _)
Climb(s1, node, previous, exc) ==
  IF node = None THEN FALSE
  ELSE IF node \in stmt1_parents(s1)
       THEN CommonParent(node, previous, children(s1, node), exc)
       ELSE Climb(s1, parent[node], node, exc)

are_exclusive(s1, s2, exc) == Climb(s1, parent[s2], s2, exc)


-----------------------------------------------------------------------------
(* Statements, frames and assignment types (astroid.bases, astroid.mixins, *)
(* astroid.scoped_nodes and the class declarations of node_classes).       *)

\* The classes deriving from bases.Statement, and Module, whose statement() is
\* itself.
StatementKinds ==
  {"Assign", "AugAssign", "Assert", "Break", "Continue", "Delete", "Expr",
   "ExceptHandler", "Exec", "For", "Global", "If", "Import", "ImportFrom",
   "Nonlocal", "Pass", "Print", "Raise", "Return", "TryExcept", "TryFinally",
   "While", "With", "FunctionDef", "ClassDef", "Module"}

FrameKinds == {"Module", "FunctionDef", "ClassDef"}

\* The classes with mixins.AssignTypeMixin (assign_type() is self), a
\* Comprehension, and the definitions.
OwnAssignTypeKinds ==
  {"Assign", "AugAssign", "Arguments", "Delete", "ExceptHandler", "For", "With",
   "Comprehension", "FunctionDef", "ClassDef", "Import", "ImportFrom"}

\* NodeNG.statement
RECURSIVE statement(_)
statement(n) == IF kind(n) \in StatementKinds THEN n ELSE statement(parent[n])

\* NodeNG.frame
RECURSIVE frame_of(_)
frame_of(n) == IF kind(n) \in FrameKinds THEN n ELSE frame_of(parent[n])

\* fromlineno; Arguments.fromlineno is max(lineno, parent.fromlineno or 0).
fromlineno(n) ==
  IF kind(n) = "Arguments"
  THEN IF Tree[n].line >= Tree[parent[n]].line THEN Tree[n].line ELSE Tree[parent[n]].line
  ELSE Tree[n].line

\* assign_type: self, or the parent's for a mixins.ParentAssignTypeMixin.
RECURSIVE assign_type(_)
assign_type(n) == IF kind(n) \in OwnAssignTypeKinds THEN n ELSE assign_type(parent[n])

\* optional_assign = True is set by For and Comprehension.
optional_assign(at) == kind(at) \in {"For", "Comprehension"}

\* ClassDef.has_base: node is one of the bases of the class.
has_base(self_, node) ==
  kind(self_) = "ClassDef" /\ parent[node] = self_ /\ Tree[node].field = "bases"

\* A short-circuit that adds the target of the comprehension to what is
\* accumulated instead of replacing it.
_get_filtered_stmts_KeepsOthers(self_, lookup_node, node, stmts_, mystmt_) ==
  IF kind(self_) = "Comprehension"
  THEN IF self_ = mystmt_
       THEN IF kind(lookup_node) \in {"Const", "Name"}
            THEN [stmts |-> <<lookup_node>>, done |-> TRUE]
            ELSE [stmts |-> stmts_, done |-> FALSE]
       ELSE IF statement(self_) = mystmt_
            THEN [stmts |-> Append(stmts_, node), done |-> TRUE]
            ELSE [stmts |-> stmts_, done |-> FALSE]
  ELSE [stmts |-> stmts_, done |-> FALSE]

\* Comprehension._get_filtered_stmts, and the default that changes nothing.
_get_filtered_stmts(self_, lookup_node, node, stmts_, mystmt_) ==
  IF kind(self_) = "Comprehension"
  THEN IF self_ = mystmt_
       THEN IF kind(lookup_node) \in {"Const", "Name"}
            THEN [stmts |-> <<lookup_node>>, done |-> TRUE]
            ELSE [stmts |-> stmts_, done |-> FALSE]
       ELSE IF statement(self_) = mystmt_
            THEN [stmts |-> <<node>>, done |-> TRUE]
            ELSE [stmts |-> stmts_, done |-> FALSE]
  ELSE [stmts |-> stmts_, done |-> FALSE]

-----------------------------------------------------------------------------
(* LookupMixIn._filter_stmts *)

\* list.index: the first position of x, 0 when it raises ValueError.
Index(s, x) ==
  IF \E i \in 1..Len(s) : s[i] = x
  THEN CHOOSE i \in 1..Len(s) : s[i] = x /\ \A j \in 1..(i - 1) : s[j] # x
  ELSE 0

\* del s[i]
DelAt(s, i) == [j \in 1..(Len(s) - 1) |-> IF j < i THEN s[j] ELSE s[j + 1]]

\* The frame the lookup is made from when it is not always moved outwards for
\* a node of a definition's header.
myframe_NoHeaderRule(self_, offset_) ==
  IF offset_ = -1 THEN frame_of(parent[frame_of(self_)]) ELSE frame_of(self_)

\* myframe: the frame the lookup is made from.
myframe_of(self_, offset_) ==
  IF offset_ = -1 THEN frame_of(parent[frame_of(self_)])
  ELSE IF statement(self_) = frame_of(self_) /\ parent[frame_of(self_)] # None
       THEN frame_of(parent[frame_of(self_)])
       ELSE frame_of(self_)

\* The test that returns stmts as it is, made on the node's own frame whatever
\* the offset.
Unfiltered_OwnFrame(self_, frame_, offset_) ==
  frame_of(self_) # frame_ \/ self_ = frame_

\* "if not myframe is frame or lookup_self is frame: return stmts"
Unfiltered(self_, frame_, offset_) ==
  myframe_of(self_, offset_) # frame_ \/ self_ = frame_

\* The list that "del _stmts[pindex]" changes, were it written "del stmts[pindex]".
DelTarget_Candidates(acc, candidates) == candidates

\* The list that "del _stmts[pindex]" changes.
DelTarget(acc, candidates) == acc

\* A pass that lets an optional assignment drop the earlier one.
DropsEarlier_IgnoreOptional(earlier, node) ==
  ~ are_exclusive(earlier, node, NoExceptions)

\* "if not (optional_assign or are_exclusive(_stmts[pindex], node))"
DropsEarlier(earlier, node) ==
  ~ (optional_assign(assign_type(node)) \/ are_exclusive(earlier, node, NoExceptions))

\* A test of the block level that never finds the earlier candidate around the
\* current one.
IsNested_Never(node) == FALSE

\* "pindex = _stmt_parents.index(stmt.parent)" found, and
\* "if _stmts[pindex].assign_type().parent_of(assign_type): continue"
IsNested(node) ==
  /\ Index(_stmt_parents, parent[statement(node)]) > 0
  /\ parent_of(assign_type(lists[STMTS][Index(_stmt_parents, parent[statement(node)])]),
               assign_type(node))

\* A reset that keeps what was accumulated.
ResetAcc_Append(node) == Append(lists[STMTS], node)

\* "_stmts = [node]" for an optional assignment around the lookup.
ResetAcc(node) == <<node>>

\* The pass of "for node in stmts" that node takes: "line" and "base" leave the
\* loop, "short" is _get_filtered_stmts answering done, "reset" restarts from an
\* optional assignment above the lookup, "nested" is the continue, "del" a
\* DelName and "assign" the pass that reaches the final test.
ScanBranch(node) ==
  IF mylineno > 0 /\ fromlineno(statement(node)) > mylineno THEN "line"
  ELSE IF has_base(node, lookup_self) THEN "base"
  ELSE IF _get_filtered_stmts(assign_type(node), lookup_self, node, lists[STMTS], mystmt).done
  THEN "short"
  ELSE IF optional_assign(assign_type(node)) /\ parent_of(assign_type(node), lookup_self)
  THEN "reset"
  ELSE IF IsNested(node) THEN "nested"
  ELSE IF kind(node) = "DelName" THEN "del"
  ELSE "assign"

\* "if not (optional_assign or are_exclusive(_stmts[pindex], node))" under
\* "else: pindex found": the earlier entry of the same block is dropped.
ScanDrops(node) ==
  /\ Index(_stmt_parents, parent[statement(node)]) > 0
  /\ DropsEarlier(lists[STMTS][Index(_stmt_parents, parent[statement(node)])], node)

\* A clearing that spares the accumulator when the candidate is exclusive with
\* the lookup node.
ScanClears_UnlessExclusive(node) ==
  /\ kind(node) = "AssignName"
  /\ ~optional_assign(assign_type(node))
  /\ parent[statement(node)] = parent[mystmt]
  /\ ~are_exclusive(lookup_self, node, NoExceptions)

\* "if isinstance(node, AssignName): if not optional_assign and
\* stmt.parent is mystmt.parent: _stmts = []; _stmt_parents = []"
ScanClears(node) ==
  /\ kind(node) = "AssignName"
  /\ ~optional_assign(assign_type(node))
  /\ parent[statement(node)] = parent[mystmt]

\* An append made whatever the branches the candidate and the lookup node are on.
ScanAppends_Always(node) == TRUE

\* "if not are_exclusive(self, node): _stmts.append(node)"
ScanAppends(node) == ~ are_exclusive(lookup_self, node, NoExceptions)

\* The list objects after "del _stmts[pindex]", when it is executed.
ListsAfterDrop(node) ==
  IF ScanDrops(node)
     /\ Index(_stmt_parents, parent[statement(node)]) <= Len(lists[DelTarget(STMTS, stmts)])
  THEN [lists EXCEPT ![DelTarget(STMTS, stmts)] =
          DelAt(@, Index(_stmt_parents, parent[statement(node)]))]
  ELSE lists

ParentsAfterDrop(node) ==
  IF ScanDrops(node)
  THEN DelAt(_stmt_parents, Index(_stmt_parents, parent[statement(node)]))
  ELSE _stmt_parents

\* The contents of _stmts after a pass that puts the candidate at the head of
\* the accumulator.
AccAfter_Prepend(node, branch) ==
  IF branch = "del" THEN <<>>
  ELSE IF ScanClears(node)
       THEN IF ScanAppends(node) THEN <<node>> ELSE <<>>
       ELSE IF ScanAppends(node)
            THEN <<node>> \o ListsAfterDrop(node)[STMTS]
            ELSE ListsAfterDrop(node)[STMTS]

\* The contents of _stmts after a pass in which a deletion empties nothing.
AccAfter_DelKeeps(node, branch) ==
  IF branch = "del" THEN ListsAfterDrop(node)[STMTS]
  ELSE IF ScanClears(node)
       THEN IF ScanAppends(node) THEN <<node>> ELSE <<>>
       ELSE IF ScanAppends(node)
            THEN Append(ListsAfterDrop(node)[STMTS], node)
            ELSE ListsAfterDrop(node)[STMTS]

\* The contents of _stmts after the pass, on the passes that go on.
AccAfter(node, branch) ==
  IF branch = "del" THEN <<>>
  ELSE IF ScanClears(node)
       THEN IF ScanAppends(node) THEN <<node>> ELSE <<>>
       ELSE IF ScanAppends(node)
            THEN Append(ListsAfterDrop(node)[STMTS], node)
            ELSE ListsAfterDrop(node)[STMTS]

\* The list objects after the pass.
ScanLists(node, branch) ==
  IF branch \in {"line", "base", "nested"} THEN lists
  ELSE IF branch = "short"
  THEN [lists EXCEPT ![STMTS] =
          _get_filtered_stmts(assign_type(node), lookup_self, node, lists[STMTS], mystmt).stmts]
  ELSE IF branch = "reset" THEN [lists EXCEPT ![STMTS] = ResetAcc(node)]
  ELSE [ListsAfterDrop(node) EXCEPT ![STMTS] = AccAfter(node, branch)]

\* _stmt_parents after the pass.
ScanParents(node, branch) ==
  IF branch \in {"line", "base", "nested", "short"} THEN _stmt_parents
  ELSE IF branch = "reset" THEN <<parent[statement(node)]>>
  ELSE IF branch = "del" THEN <<>>
  ELSE IF ScanClears(node)
       THEN IF ScanAppends(node) THEN <<parent[statement(node)]>> ELSE <<>>
       ELSE IF ScanAppends(node)
            THEN Append(ParentsAfterDrop(node), parent[statement(node)])
            ELSE ParentsAfterDrop(node)

\* What the pass did, kept for the statements about it.
ScanPath(node, branch) ==
  [branch |-> branch,
   node |-> node,
   before |-> lists[STMTS],
   dropped |-> IF branch \in {"del", "assign"} /\ ScanDrops(node)
               THEN lists[STMTS][Index(_stmt_parents, parent[statement(node)])]
               ELSE None,
   cleared |-> branch = "assign" /\ ScanClears(node),
   appended |-> branch = "assign" /\ ScanAppends(node)]

-----------------------------------------------------------------------------
NoPath ==
  [branch |-> "", node |-> None, before |-> <<>>, dropped |-> None, cleared |-> FALSE,
   appended |-> FALSE]

NoPrev == [valid |-> FALSE, excl |-> FALSE, list |-> <<>>]

FilterIdle ==
  /\ lookup_self = None /\ frame = None /\ offset = 0 /\ stmts = None
  /\ mystmt = None /\ mylineno = 0 /\ idx = 0 /\ _stmt_parents = <<>>
  /\ path = NoPath /\ trace = <<>> /\ result = None

UnpackIdle ==
  /\ upc = "idle" /\ u_stmt = None /\ yes_infer = "" /\ stack = <<>>
  /\ u_out = <<>> /\ u_status = ""

NoArguments == [args |-> <<>>, defaults |-> <<>>, kwonlyargs |-> <<>>, kw_defaults |-> <<>>]

NoResult == [raised |-> "", value |-> None]

ArgsIdle ==
  /\ apc = "idle" /\ arguments = NoArguments /\ argname = "" /\ a_result = NoResult

ExclIdle == stmt1 = None /\ stmt2 = None /\ exceptions = NoExceptions /\ excl = FALSE

Init ==
  /\ parent = [n \in Nodes |-> Tree[n].parent]
  /\ lists = [i \in LocalsLists \cup {STMTS} |->
                IF i = STMTS THEN <<>> ELSE LocalsTable[i].nodes]
  /\ pc = "idle"
  /\ op = "none"
  /\ ExclIdle
  /\ FilterIdle
  /\ prev = NoPrev
  /\ UnpackIdle
  /\ ArgsIdle

\* A call are_exclusive(a, b, e) and its return value.
CallAreExclusive ==
  /\ pc = "idle" /\ upc = "idle" /\ apc = "idle"
  /\ \E a \in Nodes, b \in Nodes, e \in ExceptionArgs :
       /\ stmt1' = a /\ stmt2' = b /\ exceptions' = e
       /\ excl' = are_exclusive(a, b, e)
  /\ pc' = "done" /\ op' = "are_exclusive"
  /\ UNCHANGED <<parent, lists, filterVars, prev>>
  /\ UNCHANGED <<unpackVars, argVars>>

\* The nodes a lookup starts from: the names and the frames.
LookupNodes == {n \in Nodes : kind(n) \in {"Name", "AssignName", "DelName"} \cup FrameKinds}

\* The frames around a node, its own included.
EnclosingFrames(n) == {f \in Nodes : kind(f) \in FrameKinds /\ (f = n \/ parent_of(f, n))}

\* offset is -1 for a node of the header of a class or function, whose frame
\* has a parent.
Offsets(n) == IF parent[frame_of(n)] # None THEN {0, -1} ELSE {0}

\* The beginning of node._filter_stmts(frame.locals[name], frame, offset), up
\* to the for loop.
EnterFilter(s, l, o) ==
  /\ lookup_self' = s /\ frame' = LocalsTable[l].scope /\ offset' = o /\ stmts' = l
  /\ lists' = [lists EXCEPT ![STMTS] = <<>>]
  /\ _stmt_parents' = <<>> /\ path' = NoPath /\ trace' = <<>>
  /\ op' = "_filter_stmts"
  /\ IF Unfiltered(s, LocalsTable[l].scope, o)
     THEN /\ result' = l /\ pc' = "done"
          /\ mystmt' = None /\ mylineno' = 0 /\ idx' = 0
     ELSE /\ result' = None /\ pc' = "scan"
          /\ mystmt' = statement(s)
          /\ mylineno' = fromlineno(statement(s)) + o
          /\ idx' = 1

FilterCall ==
  /\ pc = "idle" /\ upc = "idle" /\ apc = "idle"
  /\ \E s \in LookupNodes, l \in LocalsLists :
       /\ LocalsTable[l].scope \in EnclosingFrames(s)
       /\ \E o \in Offsets(s) : EnterFilter(s, l, o)
  /\ UNCHANGED <<parent, exclVars, prev>>
  /\ UNCHANGED <<unpackVars, argVars>>

\* One pass of the for loop over stmts.
FilterStep ==
  /\ pc = "scan" /\ idx <= Len(lists[stmts])
  /\ \E branch \in {ScanBranch(lists[stmts][idx])} :
       /\ lists' = ScanLists(lists[stmts][idx], branch)
       /\ _stmt_parents' = ScanParents(lists[stmts][idx], branch)
       /\ path' = ScanPath(lists[stmts][idx], branch)
       /\ trace' = IF path = NoPath THEN trace ELSE Append(trace, path)
       /\ idx' = IF branch \in {"line", "base", "short"}
                 THEN Len(ScanLists(lists[stmts][idx], branch)[stmts]) + 1
                 ELSE idx + 1
  /\ UNCHANGED <<parent, pc, op, exclVars, lookup_self, frame, offset, stmts, mystmt, mylineno, result, prev>>
  /\ UNCHANGED <<unpackVars, argVars>>

\* "return _stmts", after the loop.
FilterReturn ==
  /\ pc = "scan" /\ idx > Len(lists[stmts])
  /\ result' = STMTS /\ pc' = "done"
  /\ UNCHANGED <<parent, lists, op, exclVars, lookup_self, frame, offset, stmts, mystmt, mylineno,
                 idx, _stmt_parents, path, trace, prev>>
  /\ UNCHANGED <<unpackVars, argVars>>

\* The same call made once more, the first results kept aside.
Again ==
  /\ pc = "done" /\ ~prev.valid
  /\ prev' = [valid |-> TRUE, excl |-> excl,
              list |-> IF result = None THEN <<>> ELSE lists[result]]
  /\ \/ /\ op = "are_exclusive"
        /\ excl' = are_exclusive(stmt1, stmt2, exceptions)
        /\ UNCHANGED <<lists, pc, op, stmt1, stmt2, exceptions, filterVars>>
     \/ /\ op = "_filter_stmts"
        /\ EnterFilter(lookup_self, stmts, offset)
        /\ UNCHANGED exclVars
  /\ UNCHANGED parent
  /\ UNCHANGED <<unpackVars, argVars>>

\* The caller drops the result.
Return ==
  /\ pc = "done"
  /\ pc' = "idle" /\ op' = "none"
  /\ stmt1' = None /\ stmt2' = None /\ exceptions' = NoExceptions /\ excl' = FALSE
  /\ lookup_self' = None /\ frame' = None /\ offset' = 0 /\ stmts' = None
  /\ mystmt' = None /\ mylineno' = 0 /\ idx' = 0 /\ _stmt_parents' = <<>>
  /\ path' = NoPath /\ trace' = <<>> /\ result' = None
  /\ prev' = NoPrev
  /\ lists' = [lists EXCEPT ![STMTS] = <<>>]
  /\ UNCHANGED parent
  /\ UNCHANGED <<unpackVars, argVars>>

-----------------------------------------------------------------------------
(* unpack_infer *)

(***************************************************************************)
(* The values unpack_infer is applied to, with what the inference engine   *)
(* gives for each: elts for a List or a Tuple, infers for the sequence     *)
(* that infer() generates.  Values 1 to 7 are those of                     *)
(* test_unpack_infer_uninferable_nodes,                                    *)
(*     x = [A] * 1                                                         *)
(*     f = [x, [A] * 2]                                                    *)
(*     f                                                                   *)
(* where A is unknown: the use of f (1) infers to the list (2) of the name *)
(* x (3) and the product (4), which infer to the lists (5) and (6) whose   *)
(* elements are util.YES (7).  The others are a constant, which infers to  *)
(* itself, nested literals, a name with several inferred values and an     *)
(* empty list; then two names that infer to each other (16, 17) and a name *)
(* whose inference gives a constant and then the name itself (18).         *)
(***************************************************************************)
Values ==
  << [kind |-> "Name",  elts |-> <<>>,      infers |-> <<2>>],
     [kind |-> "List",  elts |-> <<3, 4>>,  infers |-> <<2>>],
     [kind |-> "Name",  elts |-> <<>>,      infers |-> <<5>>],
     [kind |-> "BinOp", elts |-> <<>>,      infers |-> <<6>>],
     [kind |-> "List",  elts |-> <<7>>,     infers |-> <<5>>],
     [kind |-> "List",  elts |-> <<7, 7>>,  infers |-> <<6>>],
     [kind |-> "YES",   elts |-> <<>>,      infers |-> <<>>],
     [kind |-> "Const", elts |-> <<>>,      infers |-> <<8>>],
     [kind |-> "Tuple", elts |-> <<8, 10>>, infers |-> <<9>>],
     [kind |-> "List",  elts |-> <<8, 8>>,  infers |-> <<10>>],
     [kind |-> "Name",  elts |-> <<>>,      infers |-> <<8, 7, 9>>],
     [kind |-> "List",  elts |-> <<>>,      infers |-> <<12>>],
     [kind |-> "List",  elts |-> <<11, 12, 9>>, infers |-> <<13>>],
     [kind |-> "Const", elts |-> <<>>,      infers |-> <<14>>],
     [kind |-> "Name",  elts |-> <<>>,      infers |-> <<13, 14>>],
     [kind |-> "Name",  elts |-> <<>>,      infers |-> <<17>>],
     [kind |-> "Name",  elts |-> <<>>,      infers |-> <<16>>],
     [kind |-> "Name",  elts |-> <<>>,      infers |-> <<8, 18>>] >>

ValueIds == 1..Len(Values)

\* util.YES
YES == CHOOSE v \in ValueIds : Values[v].kind = "YES"

\* util.YES is no node: infer taken on it either cannot be iterated, or gives
\* YES itself.
YesInfers == {"raise", "self"}

\* stmt.infer(context): the values generated, or the failure to generate.
infer(stmt) ==
  IF stmt = YES
  THEN [ok |-> yes_infer = "self", vals |-> <<YES>>]
  ELSE [ok |-> TRUE, vals |-> Values[stmt].infers]

isListOrTuple(stmt) == Values[stmt].kind \in {"List", "Tuple"}

\* The depth of nested generators at which the interpreter raises
\* RecursionError instead of starting one more.
RecursionLimit == 8

Top == stack[Len(stack)]

Pop == SubSeq(stack, 1, Len(stack) - 1)

\* The top generator moved on to its next position.
Advanced == [stack EXCEPT ![Len(stack)].i = @ + 1]

\* list(unpack_infer(stmt)) begins.
UnpackCall ==
  /\ pc = "idle" /\ upc = "idle" /\ apc = "idle"
  /\ \E s \in ValueIds, y \in YesInfers :
       /\ u_stmt' = s /\ yes_infer' = y
       /\ stack' = <<[stmt |-> s, i |-> 0]>>
  /\ upc' = "run" /\ u_out' = <<>> /\ u_status' = "running"
  /\ UNCHANGED <<parent, lists, pc, op, exclVars, filterVars, prev, argVars>>

\* "for elt in stmt.elts: for inferred_elt in unpack_infer(elt, context)":
\* the generator of the next element is started.
UnpackElts ==
  /\ upc = "run" /\ stack # <<>>
  /\ isListOrTuple(Top.stmt) /\ Top.i < Len(Values[Top.stmt].elts)
  /\ IF Len(stack) >= RecursionLimit
     THEN /\ stack' = <<>> /\ upc' = "done" /\ u_status' = "recursion"
     ELSE /\ stack' = Append(Advanced, [stmt |-> Values[Top.stmt].elts[Top.i + 1], i |-> 0])
          /\ UNCHANGED <<upc, u_status>>
  /\ UNCHANGED <<parent, lists, pc, op, exclVars, filterVars, prev, argVars,
                 u_stmt, yes_infer, u_out>>

\* "inferred = next(stmt.infer(context)); if inferred is stmt: yield inferred;
\* return".  An exception goes through every generator of the chain.
UnpackFirst ==
  /\ upc = "run" /\ stack # <<>>
  /\ ~isListOrTuple(Top.stmt) /\ Top.i = 0
  /\ IF ~infer(Top.stmt).ok \/ infer(Top.stmt).vals = <<>>
     THEN /\ stack' = <<>> /\ upc' = "done" /\ u_status' = "raised"
          /\ UNCHANGED u_out
     ELSE IF infer(Top.stmt).vals[1] = Top.stmt
     THEN /\ u_out' = Append(u_out, Top.stmt) /\ stack' = Pop
          /\ UNCHANGED <<upc, u_status>>
     ELSE /\ stack' = Advanced
          /\ UNCHANGED <<upc, u_status, u_out>>
  /\ UNCHANGED <<parent, lists, pc, op, exclVars, filterVars, prev, argVars, u_stmt, yes_infer>>

\* The loop over the inferred values without its test of the sentinel.
UnpackEach_NoSentinelTest ==
  /\ upc = "run" /\ stack # <<>>
  /\ ~isListOrTuple(Top.stmt) /\ Top.i >= 1 /\ Top.i <= Len(infer(Top.stmt).vals)
  /\ IF Len(stack) >= RecursionLimit
     THEN /\ stack' = <<>> /\ upc' = "done" /\ u_status' = "recursion"
     ELSE /\ stack' = Append(Advanced, [stmt |-> infer(Top.stmt).vals[Top.i], i |-> 0])
          /\ UNCHANGED <<upc, u_status>>
  /\ UNCHANGED <<parent, lists, pc, op, exclVars, filterVars, prev, argVars,
                 u_stmt, yes_infer, u_out>>

\* "for inferred in stmt.infer(context): if inferred is util.YES: yield
\* inferred; else: for inf_inf in unpack_infer(inferred, context)"
UnpackEach ==
  /\ upc = "run" /\ stack # <<>>
  /\ ~isListOrTuple(Top.stmt) /\ Top.i >= 1 /\ Top.i <= Len(infer(Top.stmt).vals)
  /\ IF infer(Top.stmt).vals[Top.i] = YES
     THEN /\ u_out' = Append(u_out, YES) /\ stack' = Advanced
          /\ UNCHANGED <<upc, u_status>>
     ELSE IF Len(stack) >= RecursionLimit
     THEN /\ stack' = <<>> /\ upc' = "done" /\ u_status' = "recursion"
          /\ UNCHANGED u_out
     ELSE /\ stack' = Append(Advanced, [stmt |-> infer(Top.stmt).vals[Top.i], i |-> 0])
          /\ UNCHANGED <<upc, u_status, u_out>>
  /\ UNCHANGED <<parent, lists, pc, op, exclVars, filterVars, prev, argVars,
                 u_stmt, yes_infer>>

\* A generator of the chain is exhausted.
UnpackExhausted ==
  /\ upc = "run" /\ stack # <<>>
  /\ IF isListOrTuple(Top.stmt) THEN Top.i = Len(Values[Top.stmt].elts)
     ELSE Top.i > Len(infer(Top.stmt).vals)
  /\ stack' = Pop
  /\ UNCHANGED <<parent, lists, pc, op, exclVars, filterVars, prev, argVars,
                 upc, u_stmt, yes_infer, u_out, u_status>>

\* The outermost generator is exhausted: list() returns.
UnpackReturn ==
  /\ upc = "run" /\ stack = <<>>
  /\ upc' = "done" /\ u_status' = "returned"
  /\ UNCHANGED <<parent, lists, pc, op, exclVars, filterVars, prev, argVars,
                 u_stmt, yes_infer, stack, u_out>>

\* The caller drops the result.
UnpackDrop ==
  /\ upc = "done"
  /\ upc' = "idle" /\ u_stmt' = None /\ yes_infer' = "" /\ stack' = <<>>
  /\ u_out' = <<>> /\ u_status' = ""
  /\ UNCHANGED <<parent, lists, pc, op, exclVars, filterVars, prev, argVars>>

-----------------------------------------------------------------------------
(* Arguments.default_value *)

\* The sizes of the parameter lists tried.
MaxArgs == 3
MaxKwOnly == 2

\* Parameter names; "t" is bound inside a tuple parameter, "z" by nothing.
ArgNames == {"a", "b", "c"}
KwOnlyNames == {"k", "m"}
AskedNames == ArgNames \cup KwOnlyNames \cup {"t", "z"}

\* The entries of args: an AssignName, or the Tuple of a parameter "(t, u)".
TupleArg == [kind |-> "Tuple", name |-> "", elts |-> <<"t", "u">>]
NameArg(n) == [kind |-> "AssignName", name |-> n, elts |-> <<>>]

\* Sequences without repetition.
SeqsUpTo(S, n) ==
  UNION {{s \in [1..k -> S] : \A i, j \in 1..k : s[i] = s[j] => i = j} : k \in 0..n}

\* The default values are nodes of their own: the one at position j of
\* defaults, the one at position j of kw_defaults.
DefaultNode(j) == 10 + j
KwDefaultNode(j) == 20 + j

\* The Arguments nodes a function definition gives: no more defaults than
\* args, one entry of kw_defaults (None for a missing default) per keyword-only
\* parameter, distinct names, and no keyword-only parameter where there are
\* tuple parameters.
ArgumentsNodes ==
  {[args |-> c.a,
    defaults |-> [j \in 1..c.d |-> DefaultNode(j)],
    kwonlyargs |-> [i \in 1..Len(c.k) |-> NameArg(c.k[i])],
    kw_defaults |-> [i \in 1..Len(c.k) |-> IF i \in c.w THEN KwDefaultNode(i) ELSE None]] :
     c \in {c \in [a : SeqsUpTo({NameArg(n) : n \in ArgNames} \cup {TupleArg}, MaxArgs),
                   d : 0..MaxArgs,
                   k : SeqsUpTo(KwOnlyNames, MaxKwOnly),
                   w : SUBSET (1..MaxKwOnly)] :
              /\ c.d <= Len(c.a)
              /\ c.w \subseteq 1..Len(c.k)
              /\ (\E i \in 1..Len(c.a) : c.a[i] = TupleArg) => c.k = <<>>}}

\* _find_arg(argname, args) with rec=False, of which default_value uses the
\* index: the position, counted from 0, of the first entry that is not a Tuple
\* and has the name; found is false for (None, None).
_find_arg(name, args) ==
  IF \E i \in 1..Len(args) : args[i].kind # "Tuple" /\ args[i].name = name
  THEN [found |-> TRUE,
        i |-> (CHOOSE i \in 1..Len(args) :
                 /\ args[i].kind # "Tuple" /\ args[i].name = name
                 /\ \A j \in 1..(i - 1) : args[j].kind = "Tuple" \/ args[j].name # name) - 1]
  ELSE [found |-> FALSE, i |-> 0]

\* An index that takes the position in args for the position in defaults.
DefaultIndex_LeftAligned(i, nargs, ndefaults) == i

\* "idx = i - (len(self.args) - len(self.defaults))"
DefaultIndex(i, nargs, ndefaults) == i - (nargs - ndefaults)

\* s[i] for a list s and i >= 0, as the result of the function returning it.
\* Sequences are indexed from 1 here and from 0 in the source.
Subscript(s, i) ==
  IF i < Len(s) THEN [raised |-> "", value |-> s[i + 1]]
  ELSE [raised |-> "IndexError", value |-> None]

\* self.default_value(argname): the value returned, or the exception raised.
default_value(self, name) ==
  IF /\ _find_arg(name, self.args).found
     /\ DefaultIndex(_find_arg(name, self.args).i, Len(self.args), Len(self.defaults)) >= 0
  THEN Subscript(self.defaults,
                 DefaultIndex(_find_arg(name, self.args).i, Len(self.args), Len(self.defaults)))
  ELSE IF /\ _find_arg(name, self.kwonlyargs).found
          /\ \/ Subscript(self.kw_defaults, _find_arg(name, self.kwonlyargs).i).raised # ""
             \/ Subscript(self.kw_defaults, _find_arg(name, self.kwonlyargs).i).value # None
  THEN Subscript(self.kw_defaults, _find_arg(name, self.kwonlyargs).i)
  ELSE [raised |-> "NoDefault", value |-> None]

\* A call arguments.default_value(argname) on the Arguments node of some
\* function.
CallDefaultValue ==
  /\ pc = "idle" /\ upc = "idle" /\ apc = "idle"
  /\ \E self \in ArgumentsNodes, name \in AskedNames :
       /\ arguments' = self /\ argname' = name
       /\ a_result' = default_value(self, name)
  /\ apc' = "done"
  /\ UNCHANGED <<parent, lists, pc, op, exclVars, filterVars, prev, unpackVars>>

\* The caller drops the result.
DefaultValueDrop ==
  /\ apc = "done"
  /\ apc' = "idle" /\ arguments' = NoArguments /\ argname' = "" /\ a_result' = NoResult
  /\ UNCHANGED <<parent, lists, pc, op, exclVars, filterVars, prev, unpackVars>>

NextExcl == CallAreExclusive \/ Return

SpecExcl == Init /\ [][NextExcl]_vars

NextFilter == FilterCall \/ FilterStep \/ FilterReturn \/ Return

SpecFilter == Init /\ [][NextFilter]_vars

NextReadOnly == CallAreExclusive \/ FilterCall \/ FilterStep \/ FilterReturn \/ Again \/ Return

SpecReadOnly == Init /\ [][NextReadOnly]_vars

NextUnpack ==
  UnpackCall \/ UnpackElts \/ UnpackFirst \/ UnpackEach \/ UnpackExhausted \/ UnpackReturn
    \/ UnpackDrop

SpecUnpack == Init /\ [][NextUnpack]_vars

NextArgs == CallDefaultValue \/ DefaultValueDrop

SpecArgs == Init /\ [][NextArgs]_vars

Next == NextReadOnly \/ NextUnpack \/ NextArgs

Spec == Init /\ [][Next]_vars

-----------------------------------------------------------------------------
(* The vocabulary of the properties: positions in the tree, stated on the   *)
(* parent links alone.                                                      *)

ProperAncestors(n) == LET p == PathUp(n) IN {p[i] : i \in 2..Len(p)}

\* The nearest common proper ancestor of two nodes, None when there is none.
NearestCommon(a, b) ==
  LET C == ProperAncestors(a) \cap ProperAncestors(b)
  IN  IF C = {} THEN None
      ELSE CHOOSE c \in C : \A d \in C : d = c \/ d \in ProperAncestors(c)

\* The child of anc on the way down to n.
Under(n, anc) == CHOOSE p \in ({n} \cup ProperAncestors(n)) : parent[p] = anc

\* The field of anc under which n lies.
BranchOf(n, anc) == Tree[Under(n, anc)].field

ExclDone == pc = "done" /\ op = "are_exclusive"

\* The common parent of the two arguments of the call.
CallCommon == NearestCommon(stmt1, stmt2)

CallBranches == {BranchOf(stmt1, CallCommon), BranchOf(stmt2, CallCommon)}

\* The names occurring in the type expression of a handler.
HandlerTypeNames(h) ==
  {Tree[d].name : d \in {e \in Nodes : /\ kind(e) = "Name"
                                        /\ \E t \in {e} \cup ProperAncestors(e) :
                                             parent[t] = h /\ Tree[t].field = "type"}}

HandlerIsBare(h) == ~ \E t \in Nodes : parent[t] = h /\ Tree[t].field = "type"

\* C1: under a common parent that is an If, are_exclusive is true if and only if
\* no exceptions are given and one node lies under body and the other under
\* orelse.
C1_IfBodyOrelseOnly ==
  (ExclDone /\ CallCommon # None /\ kind(CallCommon) = "If")
    => (excl <=> (~exceptions.given /\ CallBranches = {"body", "orelse"}))

\* C2: under a common parent that is a TryExcept and with no exceptions given,
\* are_exclusive is true for body against a handler, for two different
\* handlers and for a handler against orelse, and false for body against
\* orelse and for two nodes of the same handler, of body or of orelse.
C2_TryExceptBranches ==
  (ExclDone /\ CallCommon # None /\ kind(CallCommon) = "TryExcept" /\ ~exceptions.given)
    => (excl <=> \/ CallBranches = {"body", "handlers"}
                 \/ CallBranches = {"handlers", "orelse"}
                 \/ /\ CallBranches = {"handlers"}
                    /\ Under(stmt1, CallCommon) # Under(stmt2, CallCommon))

C2_Witness ==
  /\ ExclDone /\ CallCommon = N("m3.try") /\ ~exceptions.given
  /\ stmt1 = N("m3.f2") /\ stmt2 = N("m3.yelse") /\ excl

\* C3: when the nearest common parent is neither an If nor a TryExcept, or there
\* is no common parent, are_exclusive is false whatever exceptions is.
C3_OtherParentsNotExclusive ==
  (ExclDone /\ (CallCommon = None \/ kind(CallCommon) \notin {"If", "TryExcept"}))
    => ~excl

C3_Witness ==
  /\ ExclDone /\ stmt1 = N("m4.wx") /\ stmt2 = N("m4.welse")
  /\ kind(CallCommon) = "While" /\ ~exceptions.given /\ ~excl

\* C4: are_exclusive(a, b, exceptions) = are_exclusive(b, a, exceptions).
C4_Symmetric ==
  ExclDone => (excl <=> are_exclusive(stmt2, stmt1, exceptions))

C4_Witness ==
  /\ ExclDone /\ stmt1 = N("m3.yh2") /\ stmt2 = N("m3.ybody")
  /\ exceptions = [given |-> TRUE, names |-> {"os"}] /\ excl

\* C5: with exceptions given, body against a handler of a TryExcept is exclusive
\* if and only if the handler is bare or a name of its type expression is one
\* of the given names, whichever argument is on the handler's side.
C5_HandlerCatches ==
  (/\ ExclDone /\ exceptions.given
   /\ CallCommon # None /\ kind(CallCommon) = "TryExcept"
   /\ CallBranches = {"body", "handlers"})
    => LET h == IF BranchOf(stmt1, CallCommon) = "handlers"
                THEN Under(stmt1, CallCommon) ELSE Under(stmt2, CallCommon)
       IN  excl <=> (HandlerIsBare(h) \/ HandlerTypeNames(h) \cap exceptions.names # {})

C5_Witness ==
  /\ ExclDone /\ stmt1 = N("m3.f1") /\ stmt2 = N("m3.useh2")
  /\ exceptions = [given |-> TRUE, names |-> {"KeyError"}] /\ excl

-----------------------------------------------------------------------------
(* The vocabulary of the properties about _filter_stmts.                    *)

\* frame.locals[name], as the list object it is.
locals(scope, name) ==
  CHOOSE l \in LocalsLists : LocalsTable[l].scope = scope /\ LocalsTable[l].name = name

LookupDone == pc = "done" /\ op = "_filter_stmts"

\* The contents of the list a finished call returned.
Returned == IF result = None THEN <<>> ELSE lists[result]

\* The innermost frame at or above a node.
InnerFrame(n) ==
  CHOOSE f \in EnclosingFrames(n) : \A g \in EnclosingFrames(n) : g = f \/ parent_of(g, f)

\* A node of the header of a definition (or the definition itself): no
\* statement lies between it and its frame, and the frame is not a module.
InHeader(n) ==
  /\ parent[InnerFrame(n)] # None
  /\ \A s \in {n} \cup ProperAncestors(n) :
       (kind(s) \in StatementKinds /\ s # InnerFrame(n)) => parent_of(s, InnerFrame(n))

\* The scope the use is taken to be made in: one frame out for offset -1 and
\* for a header node.
EffectiveScope(n, o) ==
  IF parent[InnerFrame(n)] # None /\ (o = -1 \/ InHeader(n))
  THEN InnerFrame(parent[InnerFrame(n)])
  ELSE InnerFrame(n)

\* The lookup of x in m1 from the test of the final if.
C6_Call ==
  /\ LookupDone /\ lookup_self = N("m1.test")
  /\ stmts = locals(N("m1"), "x") /\ offset = 0

\* C6 as claimed: the lookup of x in m1 from the test of the final if returns
\* the loop target of the for statement and not the binding x = 10.
C6_LoopTargetOnly ==
  C6_Call => /\ \E i \in 1..Len(Returned) : Returned[i] = N("m1.xfor")
             /\ \A i \in 1..Len(Returned) : Returned[i] # N("m1.x10")

\* C6 as amended: the lookup of x in m1 from the test of the final if returns
\* the binding x = 10 and the loop target of the for statement, in that order,
\* a loop target not replacing the binding before the loop.
C6_InitialAndLoopTarget ==
  C6_Call => Returned = <<N("m1.x10"), N("m1.xfor")>>

C6_Witness ==
  /\ C6_Call /\ result = STMTS /\ path.branch = "assign" /\ path.appended
  /\ path.dropped = None /\ Len(Returned) = 2

\* C7: when the effective scope of the use is not the scope the candidates
\* come from, _filter_stmts returns the candidate list itself, its elements
\* and their order as they were given.
C7_OtherScopeUnfiltered ==
  (LookupDone /\ EffectiveScope(lookup_self, offset) # frame)
    => /\ result = stmts
       /\ Returned = LocalsTable[stmts].nodes

C7_Witness ==
  /\ LookupDone /\ lookup_self = N("m4.ret") /\ offset = 0
  /\ stmts = locals(N("m4"), "x") /\ EffectiveScope(lookup_self, offset) = N("m4.g")
  /\ result = stmts
  /\ \E i \in 1..Len(Returned) : kind(Returned[i]) = "DelName"

\* C9: are_exclusive and _filter_stmts leave the parent links, the locals of
\* every scope and the candidate list as they were, and a call made a second
\* time with the same arguments returns what the first returned.
C9_ReadOnly ==
  /\ parent = [n \in Nodes |-> Tree[n].parent]
  /\ \A l \in LocalsLists : lists[l] = LocalsTable[l].nodes
  /\ (pc = "done" /\ prev.valid) => (excl = prev.excl /\ Returned = prev.list)

C9_Witness ==
  /\ LookupDone /\ prev.valid /\ result = STMTS
  /\ path.dropped # None /\ Len(Returned) > 0
  /\ Len(Returned) < Len(lists[stmts])

-----------------------------------------------------------------------------
(* The vocabulary of the properties about unpack_infer.                     *)

UnpackDone == upc = "done"

\* The terminal values under a value, in order: the sentinel and a value that
\* infers to itself are terminal, a literal container stands for its elements
\* and any other value for what it infers to.
RECURSIVE Leaves(_)
RECURSIVE LeavesOfAll(_)
Leaves(v) ==
  IF v = YES THEN <<v>>
  ELSE IF Values[v].kind \in {"List", "Tuple"} THEN LeavesOfAll(Values[v].elts)
  ELSE IF Values[v].infers[1] = v THEN <<v>>
  ELSE LeavesOfAll(Values[v].infers)

LeavesOfAll(s) == IF s = <<>> THEN <<>> ELSE Leaves(s[1]) \o LeavesOfAll(Tail(s))

\* The inferred value of the use of f in "x = [A] * 1; f = [x, [A] * 2]; f".
InferredF == Values[1].infers[1]

\* C8: unpack_infer applied to a literal list or tuple yields the terminal
\* values of its elements, in order and as many as there are leaves, and for
\* the inferred value of f in "x = [A] * 1; f = [x, [A] * 2]" it yields the
\* sentinel three times and nothing else.
C8_FlattensLiterals ==
  /\ (UnpackDone /\ Values[u_stmt].kind \in {"List", "Tuple"})
       => (u_status = "returned" /\ u_out = Leaves(u_stmt))
  /\ (UnpackDone /\ u_stmt = InferredF)
       => (u_status = "returned" /\ u_out = <<YES, YES, YES>>)

-----------------------------------------------------------------------------
(* The vocabulary of the properties about default_value.                    *)

DefaultValueDone == apc = "done"

\* The positions, counted from 1, of the parameter of a name in a list.
PositionsOf(name, params) ==
  {i \in 1..Len(params) : params[i].kind = "AssignName" /\ params[i].name = name}

\* The default of the parameter at position i of args, None without one: the
\* last default belongs to the last parameter, the one before to the one
\* before, and so on.
PositionalDefault(self, i) ==
  IF Len(self.args) - i < Len(self.defaults)
  THEN self.defaults[Len(self.defaults) - (Len(self.args) - i)]
  ELSE None

\* The default of the named parameter, None when the name is no parameter or
\* the parameter has none.
DefaultOf(self, name) ==
  IF \E i \in PositionsOf(name, self.args) : PositionalDefault(self, i) # None
  THEN PositionalDefault(self, CHOOSE i \in PositionsOf(name, self.args) : TRUE)
  ELSE IF \E i \in PositionsOf(name, self.kwonlyargs) : self.kw_defaults[i] # None
  THEN self.kw_defaults[CHOOSE i \in PositionsOf(name, self.kwonlyargs) : TRUE]
  ELSE None

\* C10: default_value(argname) returns the default of the named parameter, the
\* positional defaults aligned to the right of the parameters and the
\* keyword-only ones by position, and raises NoDefault, returning nothing,
\* exactly when the name is no parameter or its parameter has no default.
C10_DefaultValue ==
  DefaultValueDone =>
    IF DefaultOf(arguments, argname) # None
    THEN a_result = [raised |-> "", value |-> DefaultOf(arguments, argname)]
    ELSE a_result = [raised |-> "NoDefault", value |-> None]

C10_Witness ==
  /\ DefaultValueDone /\ argname = "b"
  /\ Len(arguments.args) = 3 /\ Len(arguments.defaults) = 2
  /\ arguments.args[1] = TupleArg /\ arguments.args[2] = NameArg("b")
  /\ a_result = [raised |-> "", value |-> DefaultNode(1)]

-----------------------------------------------------------------------------
(* The vocabulary of the properties about the scan of _filter_stmts.  After *)
(* a pass of the loop, path.node is the candidate of the pass, path.before  *)
(* the accumulator before it and lists[STMTS] the accumulator after it.     *)

\* A pass of the loop has been made in the call under way.
Stepped == op = "_filter_stmts" /\ path.node # None

\* The pass went as far as the tests on the candidate: the scan did not stop
\* at the line horizon.
Considered == Stepped /\ path.branch # "line"

\* The accumulator after the last pass.
Acc == lists[STMTS]

\* The passes of the call so far, the last included.
Passes == IF path.node = None THEN trace ELSE Append(trace, path)

\* A filtered lookup has returned.
FilteredDone == LookupDone /\ result = STMTS

InSeq(x, s) == \E i \in 1..Len(s) : s[i] = x

\* The position of a candidate in the candidate list.
PositionOf(c) == CHOOSE i \in 1..Len(lists[stmts]) : lists[stmts][i] = c

\* The two candidates' statements are in the same block.
SameBlock(c1, c2) == parent[statement(c1)] = parent[statement(c2)]

\* The binding construct of c1 contains that of c2.
Contains(c1, c2) == assign_type(c1) \in ProperAncestors(assign_type(c2))

\* The bindings said to be optional: those of a loop, a with, a comprehension.
SaidOptional(c) == kind(assign_type(c)) \in {"For", "With", "Comprehension"}

\* The bindings that are optional: those of a loop and of a comprehension.
IsOptional(c) == kind(assign_type(c)) \in {"For", "Comprehension"}

\* The first candidate of a sequence whose statement is in the block of c's,
\* None when there is none.
FirstOfBlock(s, c) ==
  IF \E i \in 1..Len(s) : SameBlock(s[i], c)
  THEN s[CHOOSE i \in 1..Len(s) : SameBlock(s[i], c) /\ \A j \in 1..(i - 1) : ~SameBlock(s[j], c)]
  ELSE None

\* C11: in a pass that comes to the test of the block, an accumulated candidate
\* of the same block whose binding construct does not contain the current
\* one's is removed if and only if the current candidate is not optional (not
\* of a loop, a with or a comprehension) and is not exclusive with it.
C11_DropsEarlierOfBlock ==
  (Stepped /\ path.branch \in {"del", "assign"})
    => \A i \in 1..Len(path.before) :
         (SameBlock(path.before[i], path.node) /\ ~Contains(path.before[i], path.node))
           => ((path.dropped = path.before[i])
                 <=> (/\ ~SaidOptional(path.node)
                      /\ ~are_exclusive(path.before[i], path.node, NoExceptions)))

\* C12: a pass that considers a plain, non-optional name assignment whose
\* statement is in the block of the statement of the use leaves at most that
\* candidate in the accumulator, and the result of the lookup holds no
\* candidate that precedes it in the candidate list.
C12_SiblingAssignmentClears ==
  /\ (/\ Considered /\ kind(path.node) = "AssignName" /\ ~IsOptional(path.node)
      /\ parent[statement(path.node)] = parent[statement(lookup_self)])
       => (Acc = <<>> \/ Acc = <<path.node>>)
  /\ FilteredDone
       => \A k \in 1..Len(Passes) :
            (/\ Passes[k].branch # "line" /\ kind(Passes[k].node) = "AssignName"
             /\ ~IsOptional(Passes[k].node)
             /\ parent[statement(Passes[k].node)] = parent[statement(lookup_self)])
              => \A i \in 1..(PositionOf(Passes[k].node) - 1) :
                   ~InSeq(lists[stmts][i], Returned)

C12_Witness ==
  /\ FilteredDone /\ lookup_self = N("m5.last") /\ offset = 0
  /\ path.node = N("m5.x5") /\ path.cleared
  /\ InSeq(N("m5.x1"), path.before) /\ InSeq(N("m5.x2"), path.before)
  /\ InSeq(N("m5.x4"), path.before)
  /\ Returned = <<N("m5.x5")>>

\* C13: a pass on a candidate that is exclusive with the use and is not a
\* deletion removes nothing from the accumulator; the lookup of x from the else
\* branch of "x = 0; if c: x = 1 / else: x" still holds x = 0.
C13_ExclusiveCandidateKeepsEarlier ==
  /\ (/\ Stepped /\ kind(path.node) # "DelName"
      /\ are_exclusive(lookup_self, path.node, NoExceptions))
       => \A i \in 1..Len(path.before) : InSeq(path.before[i], Acc)
  /\ (/\ FilteredDone /\ lookup_self = N("m5.inelse") /\ offset = 0
      /\ stmts = locals(N("m5"), "x"))
       => InSeq(N("m5.x0"), Returned)

\* C14: when no comprehension has cut the scan short, the result of a filtered
\* lookup holds no two candidates, one before the other, of the same block,
\* the later one not optional, the earlier one's binding construct not
\* containing the later one's, and the two not exclusive.
C14_NoSupersededPair ==
  (FilteredDone /\ path.branch # "short")
    => \A i, j \in 1..Len(Returned) :
         i < j => ~ (/\ SameBlock(Returned[i], Returned[j])
                     /\ ~SaidOptional(Returned[j])
                     /\ ~Contains(Returned[i], Returned[j])
                     /\ ~are_exclusive(Returned[i], Returned[j], NoExceptions))

\* The horizon of the lookup as the specification gives it: the start line of
\* the statement of the use, plus the offset.
Horizon == fromlineno(statement(lookup_self)) + offset

\* C15: when no comprehension has cut the scan short, the result of a filtered
\* lookup holds no candidate that stands, in the candidate list, at or after
\* the first candidate whose statement starts after line L + offset, L the
\* start line of the statement of the use, for offset 0 and offset -1 alike.
C15_NothingPastHorizon ==
  (FilteredDone /\ path.branch # "short")
    => \A i \in 1..Len(lists[stmts]) :
         fromlineno(statement(lists[stmts][i])) > Horizon
           => \A j \in i..Len(lists[stmts]) : ~InSeq(lists[stmts][j], Returned)

\* The binding construct of the candidate is an ancestor of the use.
AroundUse(c) == parent_of(assign_type(c), lookup_self)

\* The scan goes on with the candidate that follows c.
GoesOnAfter(c) == idx = PositionOf(c) + 1

BlockTested == Stepped /\ path.branch \in {"nested", "del", "assign"}

\* C17 as claimed: in a pass that comes to the test of the block, every
\* accumulated candidate of the block of the current one whose binding
\* construct contains the current one's is still accumulated after the pass,
\* and so is the current candidate unless it is exclusive with the use.
C17_NestedKeepsBoth ==
  BlockTested
    => \A i \in 1..Len(path.before) :
         (SameBlock(path.before[i], path.node) /\ Contains(path.before[i], path.node))
           => /\ InSeq(path.before[i], Acc)
              /\ ~are_exclusive(lookup_self, path.node, NoExceptions) => InSeq(path.node, Acc)

\* C17 as amended: in a pass that comes to the test of the block, when the
\* first accumulated candidate of the block of the current one has a binding
\* construct that contains the current one's, the accumulator is left as it
\* was: the earlier candidate stays and the current one is not added.
C17_NestedSkipsCurrent ==
  (/\ BlockTested /\ FirstOfBlock(path.before, path.node) # None
   /\ Contains(FirstOfBlock(path.before, path.node), path.node))
    => /\ path.branch = "nested"
       /\ Acc = path.before
       /\ ~InSeq(path.node, Acc)
       /\ GoesOnAfter(path.node)

C17_Witness ==
  /\ FilteredDone /\ lookup_self = N("m4.infor") /\ offset = 0
  /\ path.node = N("m4.compx2") /\ path.branch = "nested"
  /\ path.before = <<N("m4.forx")>>
  /\ ~are_exclusive(lookup_self, path.node, NoExceptions)
  /\ Returned = <<N("m4.forx")>>

\* C18: a pass that considers a deletion of the name empties the accumulator,
\* does not add the deletion, and the scan goes on with the next candidate;
\* the result of the lookup holds neither the deletion nor any candidate that
\* precedes it in the candidate list.
C18_DeletionEmpties ==
  /\ (Considered /\ kind(path.node) = "DelName")
       => (path.branch = "del" /\ Acc = <<>> /\ GoesOnAfter(path.node))
  /\ FilteredDone
       => \A k \in 1..Len(Passes) :
            (Passes[k].branch # "line" /\ kind(Passes[k].node) = "DelName")
              => \A i \in 1..PositionOf(Passes[k].node) :
                   ~InSeq(lists[stmts][i], Returned)

C18_Witness ==
  /\ FilteredDone /\ lookup_self = N("m4.last") /\ offset = 0
  /\ \E k \in 1..Len(trace) :
       /\ trace[k].node = N("m4.del") /\ trace[k].branch = "del"
       /\ Len(trace[k].before) > 0
  /\ \E k \in 1..Len(trace) : trace[k].node = N("m4.compx") /\ trace[k].appended
  /\ Returned = <<N("m4.compx")>>

\* What the hook of the binding kind of the last candidate gives for the
\* accumulator it was handed, were the statement of the use s.
HookWith(s) ==
  _get_filtered_stmts(assign_type(path.node), lookup_self, path.node, path.before, s)

\* C19: for a candidate bound by a comprehension that the scan considers.  The
\* hook, were the comprehension itself the statement of the use, gives the use
\* alone and ends the scan when the use is a Name or a Const, and changes
\* nothing otherwise.  When the comprehension is not the statement of the use
\* but its statement is, the accumulator and the result are the candidate
\* alone and no later candidate is scanned.  When its statement is not the
\* statement of the use either, the hook leaves the accumulator as it was and
\* the scan goes on with the next candidate.
C19_ComprehensionShortCircuit ==
  (/\ Stepped /\ path.branch \notin {"line", "base"}
   /\ kind(assign_type(path.node)) = "Comprehension")
    => /\ HookWith(assign_type(path.node)) =
            IF kind(lookup_self) \in {"Name", "Const"}
            THEN [stmts |-> <<lookup_self>>, done |-> TRUE]
            ELSE [stmts |-> path.before, done |-> FALSE]
       /\ (/\ assign_type(path.node) # statement(lookup_self)
           /\ statement(assign_type(path.node)) = statement(lookup_self))
            => /\ path.branch = "short"
               /\ Acc = <<path.node>>
               /\ idx > Len(lists[stmts])
               /\ LookupDone => Returned = <<path.node>>
       /\ (/\ assign_type(path.node) # statement(lookup_self)
           /\ statement(assign_type(path.node)) # statement(lookup_self))
            => /\ path.branch # "short"
               /\ HookWith(statement(lookup_self)) = [stmts |-> path.before, done |-> FALSE]
               /\ GoesOnAfter(path.node)

C19_Witness ==
  /\ FilteredDone /\ lookup_self = N("m4.elt2") /\ offset = 0
  /\ path.node = N("m4.compx2") /\ path.branch = "short"
  /\ path.before = <<N("m4.forx")>>
  /\ PositionOf(path.node) = Len(lists[stmts])
  /\ Returned = <<N("m4.compx2")>>

\* C20: a finished lookup has gone through the filter if and only if the
\* effective scope of the use is the scope the candidates come from and the
\* use is not that scope itself, and it has returned the candidate list as
\* given otherwise.  The effective scope is the scope around the use's own for
\* offset -1, one level out and no more even when the use is in the header of
\* its scope; for offset 0 it is the use's own scope, or the scope around it
\* when the use is in the header of its scope and that scope has a parent.
C20_FilteredIffEffectiveScopeIsHome ==
  LookupDone
    => /\ (result = STMTS)
            <=> (EffectiveScope(lookup_self, offset) = frame /\ lookup_self # frame)
       /\ (result # STMTS) => (result = stmts /\ path = NoPath)
       /\ (offset = -1)
            => EffectiveScope(lookup_self, offset) = InnerFrame(parent[InnerFrame(lookup_self)])
       /\ (offset = 0 /\ statement(lookup_self) # InnerFrame(lookup_self))
            => EffectiveScope(lookup_self, offset) = InnerFrame(lookup_self)

C20_Witness ==
  /\ LookupDone /\ lookup_self = N("m5.jbase") /\ offset = -1
  /\ statement(lookup_self) = InnerFrame(lookup_self)
  /\ InnerFrame(lookup_self) = N("m5.J")
  /\ frame = N("m5.h") /\ parent[N("m5.h")] # None
  /\ result = STMTS

\* The sequence holds candidates only, in the order of the candidate list and
\* none twice.
InCandidateOrder(s) ==
  /\ \A i \in 1..Len(s) : InSeq(s[i], lists[stmts])
  /\ \A i, j \in 1..Len(s) : i < j => PositionOf(s[i]) < PositionOf(s[j])

\* C21: as long as no comprehension has cut the scan short the accumulator,
\* and so the result of a filtered lookup, holds candidates only, each at most
\* once and in the order of the candidate list, whatever resets, drops,
\* clears and appends the passes have made.
C21_OrderedSubsequence ==
  (op = "_filter_stmts" /\ pc \in {"scan", "done"} /\ path.branch # "short")
    => /\ InCandidateOrder(Acc)
       /\ (result = STMTS) => InCandidateOrder(Returned)

C21_Witness ==
  /\ FilteredDone /\ path.branch # "short"
  /\ Len(Returned) >= 2 /\ Len(Returned) < Len(lists[stmts])
  /\ \E k \in 1..Len(Passes) : Passes[k].dropped # None
  /\ \E k \in 1..Len(Passes) : Passes[k].branch = "del"
  /\ \E k \in 1..Len(Passes) : Passes[k].appended /\ Len(Passes[k].before) > 0

\* C22: as long as no comprehension has cut the scan short, no candidate of
\* the accumulator, and so none of the result of a filtered lookup, is
\* exclusive with the use; a candidate that a reset has put there included.
C22_ResultNotExclusiveWithUse ==
  (op = "_filter_stmts" /\ pc \in {"scan", "done"} /\ path.branch # "short")
    => /\ \A i \in 1..Len(Acc) : ~are_exclusive(lookup_self, Acc[i], NoExceptions)
       /\ (Stepped /\ path.branch = "reset")
            => ~are_exclusive(lookup_self, path.node, NoExceptions)

C22_Witness ==
  /\ FilteredDone /\ path.branch # "short" /\ Len(Returned) > 0
  /\ \E k \in 1..Len(Passes) :
       /\ Passes[k].branch = "assign" /\ ~Passes[k].appended
       /\ are_exclusive(lookup_self, Passes[k].node, NoExceptions)
       /\ ~InSeq(Passes[k].node, Returned)

C22_ResetWitness ==
  /\ FilteredDone /\ path.branch = "reset" /\ Returned = <<path.node>>
  /\ Len(path.before) > 0

\* C23: are_exclusive is false for a node of the test of an If against a node
\* of the body or of the orelse of the same If.
C23_TestNeverExclusive ==
  (/\ ExclDone /\ CallCommon # None /\ kind(CallCommon) = "If"
   /\ "test" \in CallBranches /\ CallBranches \cap {"body", "orelse"} # {})
    => ~excl

\* C24: for a value that is no literal list or tuple, unpack_infer gives the
\* value alone when its inference gives the value first; otherwise, when it
\* returns, it gives for the inferred values in order the sentinel as it is
\* and the terminal values of the others.  No generator is ever started on
\* the sentinel by the loop over the inferred values.
C24_NonLiteralUnpacking ==
  /\ (UnpackDone /\ u_stmt # YES /\ ~isListOrTuple(u_stmt))
       => IF Values[u_stmt].infers[1] = u_stmt
          THEN u_status = "returned" /\ u_out = <<u_stmt>>
          ELSE u_status = "returned" => u_out = LeavesOfAll(Values[u_stmt].infers)
  /\ \A k \in 2..Len(stack) :
       stack[k].stmt = YES => isListOrTuple(stack[k - 1].stmt)

C24_Witness ==
  /\ UnpackDone /\ u_stmt = 11 /\ u_status = "returned"
  /\ Values[u_stmt].infers = <<8, YES, 9>>
  /\ u_out = <<8, YES, 8, 8, 8>>

\* C25: a call of unpack_infer ends by itself, also on a name whose inference
\* gives another value before the name itself and on two names that infer to
\* each other: no generator is started on a value inside the generator of
\* that same value, and the nesting never comes to the recursion limit.
C25_NoUnboundedRecursion ==
  /\ \A i, j \in 1..Len(stack) : i < j => stack[i].stmt # stack[j].stmt
  /\ u_status # "recursion"

=============================================================================
